---- MODULE Spec2Model ----
(***************************************************************************)
(* A model of deep_sort's multi-target Tracker (deep_sort/tracker.py):     *)
(* the predict/update cycle, the two-stage association, track creation,    *)
(* the purge of deleted tracks and the refresh of the appearance gallery.  *)
(*                                                                         *)
(* tracker.py is modelled statement by statement.  Its collaborators       *)
(* (Track, KalmanFilter, linear_assignment, iou_matching, the distance     *)
(* metric) are modelled from the design document, in one spatial           *)
(* dimension and with integer costs in tenths.                             *)
(* Python lists are sequences; Python index i is index i + 1 here.         *)
(***************************************************************************)
EXTENDS Integers, Sequences, FiniteSets, TLC

VARIABLES
    tracks,                 \* Tracker.tracks: the ordered list of Track objects
    next_id,                \* Tracker._next_id
    samples,                \* metric.samples: identity -> stored embeddings
    n_init,                 \* Tracker.n_init
    max_age,                \* Tracker.max_age
    on_track_add,           \* TRUE iff the on_track_add hook is set
    on_track_feature_add,   \* TRUE iff the on_track_feature_add hook is set
    issued,                 \* history: every identity handed out, in order
    corrections,            \* history: active identity -> corrections received so far
    misses                  \* history: active identity -> consecutive frames unmatched

vars == <<tracks, next_id, samples, n_init, max_age, on_track_add,
          on_track_feature_add, issued, corrections, misses>>

config == <<n_init, max_age, on_track_add, on_track_feature_add>>

(***************************************************************************)
(* Bounds of the model.                                                    *)
(***************************************************************************)
MaxNInit == 2       \* n_init ranges over 1..MaxNInit
MaxMaxAge == 2      \* max_age ranges over 1..MaxMaxAge
MaxDets == 2        \* detections per frame
MaxId == 2          \* identities handed out in one run
MaxHits == 3        \* hit counter of any track
MaxPos == 1         \* box positions 0..MaxPos
MaxCalls == 2       \* the number of the hook call of an update that raises
MaxMisses == 3      \* the miss counter of a track left behind by a raising hook
MaxVar == 3         \* predicts without a correction (the Kalman variance)

(***************************************************************************)
(* Configuration and units.                                                *)
(***************************************************************************)
max_iou_distance == 7       \* 0.7 in tenths
matching_threshold == 2     \* metric.matching_threshold, 0.2 in tenths
budget == 2                 \* the gallery's capacity per identity
gating_threshold == 9       \* chi-square 0.95 quantile, 4 degrees of freedom
INFTY_COST == 100000        \* the cost gate_cost_matrix writes into a gated cell
BoxWidth == 1               \* every box is BoxWidth wide

Tentative == "Tentative"
Confirmed == "Confirmed"
Deleted == "Deleted"

Min(a, b) == IF a <= b THEN a ELSE b
Max(a, b) == IF a >= b THEN a ELSE b
Abs(a) == IF a >= 0 THEN a ELSE 0 - a

Range(s) == {s[i] : i \in 1..Len(s)}

\* The element of a singleton: Only({F(x) : x \in {e}}) is F(e), e computed once.
Only(S) == CHOOSE x \in S : TRUE

\* A set of integers as an ascending sequence.
RECURSIVE SortedSeq(_)
SortedSeq(S) ==
    IF S = {} THEN <<>>
    ELSE LET m == CHOOSE x \in S : \A y \in S : x <= y
         IN <<m>> \o SortedSeq(S \ {m})

(***************************************************************************)
(* Detections: a box position and a unit-length appearance embedding.      *)
(***************************************************************************)
Embeddings == {<<1, 0>>, <<0, 1>>}
Positions == 0..MaxPos
Detections == [pos : Positions, feature : Embeddings]

RECURSIVE SeqsUpTo(_, _)
SeqsUpTo(S, n) ==
    IF n = 0 THEN {<<>>}
    ELSE LET shorter == SeqsUpTo(S, n - 1)
         IN shorter \cup {Append(s, x) : s \in {t \in shorter : Len(t) = n - 1}, x \in S}

DetectionLists == SeqsUpTo(Detections, MaxDets)

(***************************************************************************)
(* KalmanFilter, in one dimension: the mean is the box position, the       *)
(* variance grows by one with every predict and is reset by a correction.  *)
(***************************************************************************)
kf_initiate(measurement) == [mean |-> measurement, var |-> 1]

\* The variance is followed up to MaxVar.
kf_predict(mean, var) == [mean |-> mean, var |-> Min(var + 1, MaxVar)]

kf_update(mean, var, measurement) == [mean |-> measurement, var |-> 1]

\* Squared Mahalanobis distance; a position step is four standard deviations
\* of a freshly corrected state.
kf_gating_distance(mean, var, measurement) ==
    (16 * (measurement - mean) * (measurement - mean)) \div var

(***************************************************************************)
(* Track: the lifecycle state machine.                                     *)
(***************************************************************************)
Track(mean, var, track_id, feature) ==
    [track_id |-> track_id, state |-> Tentative, hits |-> 1,
     time_since_update |-> 0, features |-> <<feature>>,
     mean |-> mean, var |-> var]

is_confirmed(t) == t.state = Confirmed
is_deleted(t) == t.state = Deleted
is_tentative(t) == t.state = Tentative

track_predict(t) ==
    LET p == kf_predict(t.mean, t.var)
    IN [t EXCEPT !.mean = p.mean, !.var = p.var]

track_update(t, detection, ninit) ==
    LET c == kf_update(t.mean, t.var, detection.pos)
        h == t.hits + 1
    IN [t EXCEPT !.mean = c.mean, !.var = c.var,
                 !.features = Append(@, detection.feature),
                 !.hits = h,
                 !.time_since_update = 0,
                 !.state = IF @ = Tentative /\ h >= ninit THEN Confirmed ELSE @]

track_mark_missed(t, maxage) ==
    LET m == t.time_since_update + 1
    IN [t EXCEPT !.time_since_update = m,
                 !.state = IF @ = Tentative THEN Deleted
                           ELSE IF @ = Confirmed /\ m > maxage THEN Deleted
                           ELSE @]

(***************************************************************************)
(* The appearance gallery (the distance metric).                           *)
(***************************************************************************)
Dot(a, b) == a[1] * b[1] + a[2] * b[2]

\* 1 - cosine similarity of two unit vectors, in tenths.
cosine_distance(a, b) == 10 - 10 * Dot(a, b)

\* metric.distance for one (embedding, identity) cell: the nearest stored sample.
metric_distance(gallery, feature, target) ==
    LET ds == IF target \in DOMAIN gallery
              THEN {cosine_distance(x, feature) : x \in Range(gallery[target])}
              ELSE {}
    IN IF ds = {} THEN INFTY_COST ELSE CHOOSE d \in ds : \A e \in ds : d <= e

LastN(s, n) == IF Len(s) <= n THEN s ELSE SubSeq(s, Len(s) - n + 1, Len(s))

RECURSIVE FeaturesOf(_, _, _, _)
FeaturesOf(features, targets, target, i) ==
    IF i > Len(features) THEN <<>>
    ELSE (IF targets[i] = target THEN <<features[i]>> ELSE <<>>)
         \o FeaturesOf(features, targets, target, i + 1)

\* metric.partial_fit: append, keep the newest `budget`, drop inactive identities.
partial_fit(gallery, features, targets, active_targets) ==
    [k \in Range(active_targets) |->
        LastN((IF k \in DOMAIN gallery THEN gallery[k] ELSE <<>>)
              \o FeaturesOf(features, targets, k, 1), budget)]

(***************************************************************************)
(* iou_matching.iou_cost: 1 - IOU of two boxes of width BoxWidth, tenths.  *)
(***************************************************************************)
iou_cost(t, detection) ==
    LET overlap == Max(0, BoxWidth - Abs(t.mean - detection.pos))
        union == 2 * BoxWidth - overlap
    IN (10 * (union - overlap)) \div union

(***************************************************************************)
(* linear_assignment: the solver, the gate and the cascade.                *)
(* Index lists are sequences; a cost matrix is a function of <<i, j>>.     *)
(***************************************************************************)
Injections(A, B) == {f \in [A -> B] : \A x \in A, y \in A : f[x] = f[y] => x = y}

\* Every one-to-one pairing of T with D of size min(|T|, |D|).
Assignments(T, D) ==
    IF Cardinality(T) <= Cardinality(D)
    THEN {{<<i, f[i]>> : i \in T} : f \in Injections(T, D)}
    ELSE {{<<f[j], j>> : j \in D} : f \in Injections(D, T)}

\* The sum of the cost matrix c over the pairs of m.
RECURSIVE TotalCost(_, _)
TotalCost(c, m) ==
    IF m = {} THEN 0
    ELSE LET p == CHOOSE x \in m : TRUE
         IN c[p] + TotalCost(c, m \ {p})

\* The pairs of m as a sequence, by ascending track index.
RECURSIVE PairsByTrack(_)
PairsByTrack(m) ==
    IF m = {} THEN <<>>
    ELSE LET p == CHOOSE x \in m : \A y \in m : x[1] <= y[1]
         IN <<p>> \o PairsByTrack(m \ {p})

SeqMinus(s, S) == SelectSeq(s, LAMBDA x : x \notin S)

Cheapest(total) == CHOOSE m \in DOMAIN total : \A o \in DOMAIN total : total[m] <= total[o]

\* The solver: a minimum-cost assignment of size min(rows, columns); among
\* equally cheap ones always the same one.
linear_assignment(cost, T, D) ==
    Cheapest([m \in Assignments(T, D) |-> TotalCost(cost, m)])

\* gate_cost_matrix, one cell: a kinematically implausible pair costs INFTY_COST.
gate_cost(cost, trks, dets, i, j) ==
    IF kf_gating_distance(trks[i].mean, trks[i].var, dets[j].pos) > gating_threshold
    THEN INFTY_COST
    ELSE cost

\* A variant that leaves the appearance cost ungated.
gated_metric_ungated(gallery, trks, dets, i, j) ==
    metric_distance(gallery, dets[j].feature, trks[i].track_id)

\* Tracker._match.gated_metric, one cell of its cost matrix.
gated_metric(gallery, trks, dets, i, j) ==
    gate_cost(metric_distance(gallery, dets[j].feature, trks[i].track_id),
              trks, dets, i, j)

\* The cost matrix of a distance metric ("gated_metric" or "iou_cost").
cost_matrix(distance_metric, gallery, trks, dets, track_indices, detection_indices) ==
    [p \in Range(track_indices) \X Range(detection_indices) |->
        IF distance_metric = "gated_metric"
        THEN gated_metric(gallery, trks, dets, p[1], p[2])
        ELSE iou_cost(trks[p[1]], dets[p[2]])]

\* cost_matrix[cost_matrix > max_distance] = just above max_distance
clip_costs(cost, max_distance) ==
    [p \in DOMAIN cost |-> Min(cost[p], max_distance + 1)]

\* The assigned pairs no costlier than max_distance are the matches.
accepted(cost, max_distance, track_indices, detection_indices, indices) ==
    LET kept == {p \in indices : cost[p] <= max_distance}
    IN [matches |-> PairsByTrack(kept),
        unmatched_tracks |-> SeqMinus(track_indices, {p[1] : p \in kept}),
        unmatched_detections |-> SeqMinus(detection_indices, {p[2] : p \in kept})]

solve(cost, max_distance, track_indices, detection_indices) ==
    Only({accepted(cost, max_distance, track_indices, detection_indices, indices) :
            indices \in {linear_assignment(cost, Range(track_indices),
                                           Range(detection_indices))}})

min_cost_matching(distance_metric, max_distance, gallery, trks, dets, track_indices, detection_indices) ==
    IF track_indices = <<>> \/ detection_indices = <<>>
    THEN [matches |-> <<>>, unmatched_tracks |-> track_indices,
          unmatched_detections |-> detection_indices]
    ELSE Only({solve(cost, max_distance, track_indices, detection_indices) :
                 cost \in {clip_costs(cost_matrix(distance_metric, gallery, trks, dets,
                                                  track_indices, detection_indices),
                                      max_distance)}})

\* The tracks of one cascade level: those missed exactly `age` times.
cascade_level(trks, track_indices, age) ==
    SelectSeq(track_indices, LAMBDA k : trks[k].time_since_update = age)

cascade_step(acc, r) ==
    [matches |-> acc.matches \o r.matches,
     unmatched_detections |-> r.unmatched_detections]

\* matching_cascade from level `age` on: the tracks missed `age` times pick next.
RECURSIVE cascade_from(_, _, _, _, _, _, _, _, _)
cascade_from(distance_metric, max_distance, cascade_depth, gallery, trks, dets, track_indices, age, acc) ==
    IF age > cascade_depth \/ acc.unmatched_detections = <<>> THEN acc
    ELSE Only({cascade_from(distance_metric, max_distance, cascade_depth, gallery,
                            trks, dets, track_indices, age + 1, next) :
                 next \in {IF cascade_level(trks, track_indices, age) = <<>> THEN acc
                           ELSE cascade_step(acc,
                                  min_cost_matching(distance_metric, max_distance,
                                      gallery, trks, dets,
                                      cascade_level(trks, track_indices, age),
                                      acc.unmatched_detections))}})

cascade_result(track_indices, r) ==
    [matches |-> r.matches,
     unmatched_tracks |->
        SeqMinus(track_indices, {r.matches[n][1] : n \in 1..Len(r.matches)}),
     unmatched_detections |-> r.unmatched_detections]

matching_cascade(distance_metric, max_distance, cascade_depth, gallery, trks, dets, track_indices) ==
    Only({cascade_result(track_indices, r) :
            r \in {cascade_from(distance_metric, max_distance, cascade_depth, gallery,
                                trks, dets, track_indices, 1,
                                [matches |-> <<>>,
                                 unmatched_detections |-> [j \in 1..Len(dets) |-> j]])}})

(***************************************************************************)
(* Tracker._match: the two-stage association.                              *)
(***************************************************************************)
confirmed_tracks(trks) == SortedSeq({i \in 1..Len(trks) : is_confirmed(trks[i])})

unconfirmed_tracks(trks) == SortedSeq({i \in 1..Len(trks) : ~is_confirmed(trks[i])})

\* A variant that retries every track that has missed at least once.
iou_retry_any_miss(trks, unmatched_tracks_a) ==
    SelectSeq(unmatched_tracks_a, LAMBDA k : trks[k].time_since_update >= 1)

\* The confirmed tracks left unmatched by the cascade that go on to IOU matching.
iou_retry(trks, unmatched_tracks_a) ==
    SelectSeq(unmatched_tracks_a, LAMBDA k : trks[k].time_since_update = 1)

\* A variant that reports all tracks the cascade left unmatched.
iou_skip_none(trks, unmatched_tracks_a) == unmatched_tracks_a

\* The confirmed tracks left unmatched by the cascade that are reported unmatched.
iou_skip(trks, unmatched_tracks_a) ==
    SelectSeq(unmatched_tracks_a, LAMBDA k : trks[k].time_since_update # 1)

iou_track_candidates(trks, a) ==
    unconfirmed_tracks(trks) \o iou_retry(trks, a.unmatched_tracks)

\* A variant that reports only the IOU stage's unmatched tracks.
match_result_b_only(trks, a, b) ==
    [matches |-> a.matches \o b.matches,
     unmatched_tracks |-> SortedSeq(Range(b.unmatched_tracks)),
     unmatched_detections |-> b.unmatched_detections,
     matches_a |-> a.matches,
     matches_b |-> b.matches,
     iou_track_candidates |-> iou_track_candidates(trks, a)]

\* matches, unmatched_tracks, unmatched_detections of the two stages a and b.
match_result(trks, a, b) ==
    [matches |-> a.matches \o b.matches,
     unmatched_tracks |->
        SortedSeq(Range(iou_skip(trks, a.unmatched_tracks) \o b.unmatched_tracks)),
     unmatched_detections |-> b.unmatched_detections,
     matches_a |-> a.matches,
     matches_b |-> b.matches,
     iou_track_candidates |-> iou_track_candidates(trks, a)]

\* A variant that offers all detections to the IOU stage.
match_iou_all_detections(trks, gallery, dets, a) ==
    Only({match_result(trks, a, b) :
            b \in {min_cost_matching("iou_cost", max_iou_distance, gallery, trks, dets,
                                     iou_track_candidates(trks, a),
                                     [j \in 1..Len(dets) |-> j])}})

\* The IOU stage, given the cascade's result a.
match_iou(trks, gallery, dets, a) ==
    Only({match_result(trks, a, b) :
            b \in {min_cost_matching("iou_cost", max_iou_distance, gallery, trks, dets,
                                     iou_track_candidates(trks, a),
                                     a.unmatched_detections)}})

\* A variant that associates all confirmed tracks in one round, without levels.
_match_one_round(trks, gallery, maxage, dets) ==
    Only({match_iou(trks, gallery, dets, a) :
            a \in {min_cost_matching("gated_metric", matching_threshold, gallery, trks,
                                     dets, confirmed_tracks(trks),
                                     [j \in 1..Len(dets) |-> j])}})

_match(trks, gallery, maxage, dets) ==
    Only({match_iou(trks, gallery, dets, a) :
            a \in {matching_cascade("gated_metric", matching_threshold, maxage,
                                    gallery, trks, dets, confirmed_tracks(trks))}})

(***************************************************************************)
(* Tracker._initiate_track and the three loops of Tracker.update, each     *)
(* over a running state                                                    *)
(*   st = [tracks, next_id, events, issued, corr, miss, fail, raised]      *)
(* where events lists the hook calls made so far in this update, fail is   *)
(* the number of the hook call that raises (0: none does) and raised tells *)
(* that it has: the exception leaves update, the rest of it is skipped.    *)
(***************************************************************************)
\* A variant that derives the identity from the length of the track list.
_initiate_track_by_length(st, detection) ==
    [st EXCEPT !.tracks = Append(@, Track(kf_initiate(detection.pos).mean,
                                          kf_initiate(detection.pos).var,
                                          Len(st.tracks) + 1, detection.feature)),
               !.next_id = @ + 1]

_initiate_track(st, detection) ==
    [st EXCEPT !.tracks = Append(@, Track(kf_initiate(detection.pos).mean,
                                          kf_initiate(detection.pos).var,
                                          st.next_id, detection.feature)),
               !.next_id = @ + 1]

FeatureEvent(track_id, feature) ==
    [hook |-> "on_track_feature_add", track_id |-> track_id, feature |-> feature]

AddEvent(track_id) ==
    [hook |-> "on_track_add", track_id |-> track_id, feature |-> <<>>]

\* A variant that counts the corrections instead of the hits.
feature_due_by_corrections(t, ninit) == (t.hits - 1) % (ninit * 3) = 0

\* self.tracks[track_idx].hits % (self.n_init * 3) == 0
feature_due(t, ninit) == t.hits % (ninit * 3) = 0

\* f with f[k] = v, k added to its domain when new.
Put(f, k, v) == [x \in DOMAIN f \cup {k} |-> IF x = k THEN v ELSE f[x]]

\* A hook call: it is made unless an earlier one raised, and raises if it
\* is call number st.fail of this update.
Call(st, event) ==
    IF st.raised THEN st
    ELSE [st EXCEPT !.events = Append(@, event),
                    !.raised = (Len(st.events) + 1 = st.fail)]

\* The loop body over matches, t being the corrected track.
record_match(st, track_idx, t, ninit, feature_hook) ==
    Only({IF feature_hook /\ feature_due(t, ninit)
          THEN Call(c, FeatureEvent(t.track_id, t.features[Len(t.features)]))
          ELSE c :
            c \in {[st EXCEPT !.tracks[track_idx] = t,
                              !.corr = Put(@, t.track_id, @[t.track_id] + 1),
                              !.miss = Put(@, t.track_id, 0)]}})

apply_match(st, pair, dets, ninit, feature_hook) ==
    Only({record_match(st, pair[1], t, ninit, feature_hook) :
            t \in {track_update(st.tracks[pair[1]], dets[pair[2]], ninit)}})

\* A variant whose loop over the matches does nothing.
apply_matches_skipped(st, matches, n, dets, ninit, feature_hook) == st

RECURSIVE apply_matches(_, _, _, _, _, _)
apply_matches(st, matches, n, dets, ninit, feature_hook) ==
    IF n > Len(matches) \/ st.raised THEN st
    ELSE Only({apply_matches(next, matches, n + 1, dets, ninit, feature_hook) :
                 next \in {apply_match(st, matches[n], dets, ninit, feature_hook)}})

\* The loop body over unmatched tracks.
apply_miss(st, track_idx, maxage) ==
    [st EXCEPT !.tracks[track_idx] = track_mark_missed(@, maxage),
               !.miss = Put(@, st.tracks[track_idx].track_id,
                            @[st.tracks[track_idx].track_id] + 1)]

\* A variant whose loop over the unmatched tracks does nothing.
apply_missed_skipped(st, unmatched_tracks, n, maxage) == st

RECURSIVE apply_missed(_, _, _, _)
apply_missed(st, unmatched_tracks, n, maxage) ==
    IF n > Len(unmatched_tracks) \/ st.raised THEN st
    ELSE Only({apply_missed(next, unmatched_tracks, n + 1, maxage) :
                 next \in {apply_miss(st, unmatched_tracks[n], maxage)}})

\* The bookkeeping of a creation, c being the state after _initiate_track.
note_new(c) ==
    [c EXCEPT !.issued = Append(@, c.tracks[Len(c.tracks)].track_id),
              !.corr = Put(@, c.tracks[Len(c.tracks)].track_id, 0),
              !.miss = Put(@, c.tracks[Len(c.tracks)].track_id, 0)]

\* if self.on_track_add is not None: self.on_track_add(...)
call_add(c, add_hook) ==
    IF add_hook THEN Call(c, AddEvent(c.tracks[Len(c.tracks)].track_id)) ELSE c

\* if self.on_track_feature_add is not None: self.on_track_feature_add(...)
call_first_seen(c, detection, feature_hook) ==
    IF feature_hook
    THEN Call(c, FeatureEvent(c.tracks[Len(c.tracks)].track_id, detection.feature))
    ELSE c

\* A variant that calls the feature hook before the track-added hook.
record_new_feature_first(c, detection, add_hook, feature_hook) ==
    call_add(call_first_seen(note_new(c), detection, feature_hook), add_hook)

\* The hook calls of the loop body over unmatched detections, c being the
\* state after _initiate_track.
record_new(c, detection, add_hook, feature_hook) ==
    call_first_seen(call_add(note_new(c), add_hook), detection, feature_hook)

apply_new(st, detection, add_hook, feature_hook) ==
    Only({record_new(c, detection, add_hook, feature_hook) :
            c \in {_initiate_track(st, detection)}})

\* A variant that walks the unmatched detections from the last to the first.
RECURSIVE apply_news_reversed(_, _, _, _, _, _)
apply_news_reversed(st, unmatched_detections, n, dets, add_hook, feature_hook) ==
    IF n > Len(unmatched_detections) \/ st.raised THEN st
    ELSE Only({apply_news_reversed(next, unmatched_detections, n + 1, dets,
                                   add_hook, feature_hook) :
                 next \in {apply_new(st,
                               dets[unmatched_detections[Len(unmatched_detections) - n + 1]],
                               add_hook, feature_hook)}})

RECURSIVE apply_news(_, _, _, _, _, _)
apply_news(st, unmatched_detections, n, dets, add_hook, feature_hook) ==
    IF n > Len(unmatched_detections) \/ st.raised THEN st
    ELSE Only({apply_news(next, unmatched_detections, n + 1, dets, add_hook,
                          feature_hook) :
                 next \in {apply_new(st, dets[unmatched_detections[n]], add_hook,
                                     feature_hook)}})

\* A variant that keeps every track.
purge_nothing(trks) == trks

\* A variant that drops only the tracks deleted while still tentative.
purge_unconfirmed(trks) ==
    SelectSeq(trks, LAMBDA t : ~(is_deleted(t) /\ t.hits < 2))

\* self.tracks = [t for t in self.tracks if not t.is_deleted()]
purge(trks) == SelectSeq(trks, LAMBDA t : ~is_deleted(t))

RECURSIVE Flatten(_)
Flatten(ss) == IF ss = <<>> THEN <<>> ELSE Head(ss) \o Flatten(Tail(ss))

\* A variant that keeps the identities of all active tracks.
active_targets_all(trks) == [n \in 1..Len(trks) |-> trks[n].track_id]

\* active_targets = [t.track_id for t in self.tracks if t.is_confirmed()]
active_targets(trks) ==
    [n \in 1..Len(SelectSeq(trks, is_confirmed)) |->
        SelectSeq(trks, is_confirmed)[n].track_id]

\* features += track.features, over the confirmed tracks
collected_features(trks) ==
    Flatten([n \in 1..Len(SelectSeq(trks, is_confirmed)) |->
                SelectSeq(trks, is_confirmed)[n].features])

\* targets += [track.track_id for _ in track.features], over the confirmed tracks
collected_targets(trks) ==
    Flatten([n \in 1..Len(SelectSeq(trks, is_confirmed)) |->
                [x \in 1..Len(SelectSeq(trks, is_confirmed)[n].features) |->
                    SelectSeq(trks, is_confirmed)[n].track_id]])

\* The refresh of the distance metric from the confirmed tracks' buffers.
refresh_metric(gallery, trks) ==
    partial_fit(gallery, collected_features(trks), collected_targets(trks),
                active_targets(trks))

\* A variant that leaves the buffers as they are.
clear_features_kept(trks) == trks

\* track.features = [] for every confirmed track.
clear_features(trks) ==
    [n \in 1..Len(trks) |->
        IF is_confirmed(trks[n]) THEN [trks[n] EXCEPT !.features = <<>>] ELSE trks[n]]

track_ids(trks) == {trks[n].track_id : n \in 1..Len(trks)}

Restrict(f, S) == [x \in DOMAIN f \cap S |-> f[x]]

(***************************************************************************)
(* Tracker.update as a function of the state and the detections: the new   *)
(* state, with the association m, the tracks as they were before the purge *)
(* (applied) and the hook calls (events).                                  *)
(***************************************************************************)
\* The refresh of the metric, kept being the tracks that survive the purge.
update_refresh(gallery, m, st, kept) ==
    [tracks |-> clear_features(kept),
     samples |-> refresh_metric(gallery, kept),
     next_id |-> st.next_id,
     issued |-> st.issued,
     corr |-> Restrict(st.corr, track_ids(kept)),
     miss |-> Restrict(st.miss, track_ids(kept)),
     m |-> m,
     applied |-> st.tracks,
     events |-> st.events,
     raised |-> FALSE]

\* A hook call raised: the purge and the refresh are not reached.
update_raised(gallery, m, st) ==
    [tracks |-> st.tracks,
     samples |-> gallery,
     next_id |-> st.next_id,
     issued |-> st.issued,
     corr |-> st.corr,
     miss |-> st.miss,
     m |-> m,
     applied |-> st.tracks,
     events |-> st.events,
     raised |-> TRUE]

\* The purge, st being the state after the three loops.
update_finish(gallery, m, st) ==
    IF st.raised THEN update_raised(gallery, m, st)
    ELSE Only({update_refresh(gallery, m, st, kept) : kept \in {purge(st.tracks)}})

\* A variant that creates the tracks first and then marks missed every track
\* of the list that has no match.
update_apply_news_first(st, gallery, ninit, maxage, add_hook, feature_hook, dets, m) ==
    Only({update_finish(gallery, m,
                        apply_missed(st2,
                                     SeqMinus([n \in 1..Len(st2.tracks) |-> n],
                                              {m.matches[n][1] : n \in 1..Len(m.matches)}),
                                     1, maxage)) :
            st2 \in {apply_news(
                        apply_matches(st, m.matches, 1, dets, ninit, feature_hook),
                        m.unmatched_detections, 1, dets, add_hook, feature_hook)}})

\* The three loops, given the association m.
update_apply(st, gallery, ninit, maxage, add_hook, feature_hook, dets, m) ==
    Only({update_finish(gallery, m, st3) :
            st3 \in {apply_news(
                        apply_missed(
                            apply_matches(st, m.matches, 1, dets, ninit, feature_hook),
                            m.unmatched_tracks, 1, maxage),
                        m.unmatched_detections, 1, dets, add_hook, feature_hook)}})

\* The tracker's state as a record.
Current ==
    [tracks |-> tracks, samples |-> samples, next_id |-> next_id,
     issued |-> issued, corr |-> corrections, miss |-> misses]

\* update(dets) called in state s, hook call number `fail` raising.
update_call(s, dets, fail) ==
    Only({update_apply([tracks |-> s.tracks, next_id |-> s.next_id, events |-> <<>>,
                        issued |-> s.issued, corr |-> s.corr, miss |-> s.miss,
                        fail |-> fail, raised |-> FALSE],
                       s.samples, n_init, max_age, on_track_add, on_track_feature_add,
                       dets, m) :
            m \in {_match(s.tracks, s.samples, max_age, dets)}})

\* update(dets) in the current state, no hook call raising.
update(dets) == update_call(Current, dets, 0)

(***************************************************************************)
(* The state machine.                                                      *)
(***************************************************************************)
\* Tracker.__init__, over the constructor arguments drawn from the given sets.
Construct(n_inits, max_ages, hooks) ==
    /\ tracks = <<>>
    /\ next_id = 1
    /\ samples = <<>>
    /\ n_init \in n_inits
    /\ max_age \in max_ages
    /\ on_track_add \in hooks
    /\ on_track_feature_add \in hooks
    /\ issued = <<>>
    /\ corrections = <<>>
    /\ misses = <<>>

\* Tracker.predict
Predict ==
    /\ tracks' = [n \in 1..Len(tracks) |-> track_predict(tracks[n])]
    /\ UNCHANGED <<next_id, samples, issued, corrections, misses, config>>

\* Tracker.update(detections), the detections drawn from `lists`, while the
\* identity counter stays within max_id and the hit counters within max_hits.
UpdateOver(lists, max_id, max_hits) ==
    \E dets \in lists :
        \E r \in {update(dets)} :
           /\ r.next_id <= max_id + 1
           /\ \A n \in 1..Len(r.tracks) : r.tracks[n].hits <= max_hits
           /\ tracks' = r.tracks
           /\ samples' = r.samples
           /\ next_id' = r.next_id
           /\ issued' = r.issued
           /\ corrections' = r.corr
           /\ misses' = r.miss
           /\ UNCHANGED config

(***************************************************************************)
(* Spec: frames of up to MaxDets detections, both hooks set.               *)
(***************************************************************************)
Init == Construct(1..MaxNInit, 1..MaxMaxAge, {TRUE})

Update == UpdateOver(DetectionLists, MaxId, MaxHits)

Next == Predict \/ Update

Spec == Init /\ [][Next]_vars

(***************************************************************************)
(* HookSpec: frames of at most one detection, and hook calls that raise.   *)
(* The exception leaves update at the call; the caller goes on.            *)
(***************************************************************************)
FewDetections == SeqsUpTo(Detections, 1)

\* Tracker.update(detections) left by an exception of hook call number
\* `fail`: the state is what the loops had done up to that call.
UpdateRaisesOver(lists, calls, max_id, max_hits, max_misses) ==
    \E dets \in lists :
        \E fail \in calls :
            \E r \in {update_call(Current, dets, fail)} :
               /\ r.raised
               /\ r.next_id <= max_id + 1
               /\ \A n \in 1..Len(r.tracks) :
                     /\ r.tracks[n].hits <= max_hits
                     /\ r.tracks[n].time_since_update <= max_misses
               /\ tracks' = r.tracks
               /\ samples' = r.samples
               /\ next_id' = r.next_id
               /\ issued' = r.issued
               /\ corrections' = r.corr
               /\ misses' = r.miss
               /\ UNCHANGED config

UpdateFew == UpdateOver(FewDetections, MaxId, MaxHits)

UpdateRaises == UpdateRaisesOver(FewDetections, 1..MaxCalls, MaxId, MaxHits, MaxMisses)

HookNext == Predict \/ UpdateFew \/ UpdateRaises

HookSpec == Init /\ [][HookNext]_vars

(***************************************************************************)
(* Properties.  "For every detection list" ranges over DetectionLists, and *)
(* update(dets) is what Tracker.update(dets) would do in the current state.*)
(***************************************************************************)
StrictlyIncreasing(s) == \A i \in 1..Len(s), j \in 1..Len(s) : i < j => s[i] < s[j]

\* The tracks update(dets) creates: those appended to the list.
Created(r) == SubSeq(r.applied, Len(tracks) + 1, Len(r.applied))

\* C1: identities come from a counter that starts at 1 and is incremented on
\* every creation: the identities handed out so far are 1, 2, ... in order of
\* creation, all below the counter, so every new one exceeds all earlier ones
\* and none is shared, by active or purged tracks; no update lowers the counter.
C1_IdentityMonotonic ==
    /\ issued = [i \in 1..Len(issued) |-> i]
    /\ next_id = Len(issued) + 1
    /\ track_ids(tracks) \subseteq Range(issued)
    /\ \A i \in 1..Len(tracks), j \in 1..Len(tracks) :
          tracks[i].track_id = tracks[j].track_id => i = j
    /\ \A dets \in DetectionLists :
          \A r \in {update(dets)} :
             /\ r.next_id >= next_id
             /\ r.next_id = next_id + Len(Created(r))
             /\ StrictlyIncreasing(r.issued)
             /\ \A n \in 1..Len(Created(r)) :
                   \A old \in Range(issued) : Created(r)[n].track_id > old

\* Two identities were handed out and the first track has been purged.
C1_Witness ==
    /\ Len(issued) = 2
    /\ 1 \notin track_ids(tracks)
    /\ 2 \in track_ids(tracks)

\* The index in r.tracks of the track with this identity, 0 when purged.
IndexOf(trks, id) ==
    IF id \in track_ids(trks)
    THEN CHOOSE n \in 1..Len(trks) : trks[n].track_id = id
    ELSE 0

Matched(r) == {r.m.matches[n][1] : n \in 1..Len(r.m.matches)}

\* C2: for every n_init >= 1 a track matched in every frame since its creation
\* is Confirmed exactly from its n_init-th detection on, the creating one
\* counted: a Tentative track has seen fewer than n_init detections, and a
\* track created or corrected by an update is Confirmed at its end iff it
\* has then seen at least n_init.
C2_ConfirmedOnNInitth ==
    /\ \A n \in 1..Len(tracks) :
          is_tentative(tracks[n]) => corrections[tracks[n].track_id] + 1 < n_init
    /\ \A dets \in DetectionLists :
          \A r \in {update(dets)} :
             \A n \in 1..Len(r.applied) :
                (n > Len(tracks) \/ (n \in Matched(r) /\ is_tentative(tracks[n])))
                => (is_confirmed(r.applied[n])
                    <=> r.corr[r.applied[n].track_id] + 1 >= n_init)

\* C3: a Confirmed track survives exactly max_age consecutive missed frames:
\* an active Confirmed track has missed at most max_age frames in a row, and
\* when an update leaves it unmatched for the k-th time in a row it stays
\* active and Confirmed if k <= max_age and is Deleted and purged if
\* k = max_age + 1.
C3_DeletedOnMissMaxAgePlusOne ==
    /\ \A n \in 1..Len(tracks) :
          is_confirmed(tracks[n]) => misses[tracks[n].track_id] <= max_age
    /\ \A dets \in DetectionLists :
          \A r \in {update(dets)} :
             \A n \in 1..Len(tracks) :
                (is_confirmed(tracks[n]) /\ n \in Range(r.m.unmatched_tracks))
                => \A id \in {tracks[n].track_id} :
                      IF misses[id] + 1 <= max_age
                      THEN /\ is_confirmed(r.applied[n])
                           /\ id \in track_ids(r.tracks)
                           /\ is_confirmed(r.tracks[IndexOf(r.tracks, id)])
                           /\ r.miss[id] = misses[id] + 1
                      ELSE /\ misses[id] + 1 = max_age + 1
                           /\ is_deleted(r.applied[n])
                           /\ id \notin track_ids(r.tracks)

\* A Confirmed track that has missed max_age >= 2 frames in a row is active,
\* and the update without detections deletes it.
C3_Witness ==
    /\ max_age >= 2
    /\ \E n \in 1..Len(tracks) :
          /\ is_confirmed(tracks[n])
          /\ misses[tracks[n].track_id] = max_age
          /\ tracks[n].track_id \notin track_ids(update(<<>>).tracks)

\* C4: a track with hit count < n_init, or Tentative, that an update leaves
\* unmatched is Deleted by it, with no grace period, and is not in the
\* active set when the update returns.
C4_TentativeMissDeletes ==
    \A dets \in DetectionLists :
       \A r \in {update(dets)} :
          \A n \in Range(r.m.unmatched_tracks) :
             (tracks[n].hits < n_init \/ is_tentative(tracks[n]))
             => /\ is_deleted(r.applied[n])
                /\ tracks[n].track_id \notin track_ids(r.tracks)

\* A Tentative track with hit count < n_init is active, and some detection
\* list leaves it unmatched while it creates another track.
C4_Witness ==
    \E n \in 1..Len(tracks) :
       /\ is_tentative(tracks[n])
       /\ tracks[n].hits < n_init
       /\ \E dets \in DetectionLists :
             /\ n \in Range(update(dets).m.unmatched_tracks)
             /\ Len(update(dets).tracks) > 0

\* C5: update([]) marks every active track missed, adds exactly 1 to the miss
\* counter of every Confirmed track, creates no track and leaves the
\* identity counter unchanged.
C5_EmptyUpdate ==
    \A r \in {update(<<>>)} :
       /\ r.m.matches = <<>>
       /\ Range(r.m.unmatched_tracks) = 1..Len(tracks)
       /\ Len(r.applied) = Len(tracks)
       /\ \A n \in 1..Len(tracks) :
             /\ r.applied[n] = track_mark_missed(tracks[n], max_age)
             /\ is_confirmed(tracks[n])
                => r.applied[n].time_since_update = tracks[n].time_since_update + 1
       /\ r.next_id = next_id
       /\ r.issued = issued
       /\ track_ids(r.tracks) \subseteq track_ids(tracks)

\* Two Confirmed tracks with different miss counters are active, one of them
\* on its last life: update([]) keeps the one and deletes the other.
C5_Witness ==
    /\ Len(tracks) = 2
    /\ is_confirmed(tracks[1]) /\ is_confirmed(tracks[2])
    /\ tracks[1].time_since_update # tracks[2].time_since_update
    /\ Len(update(<<>>).tracks) = 1

\* C6: with no active track, update(detections) turns every detection into
\* one new Tentative track: the active set then has len(detections) tracks, in
\* detection order, with consecutive identities from the counter's previous
\* value on, and there is no match.
C6_AllDetectionsBecomeTracks ==
    tracks = <<>> =>
       \A dets \in DetectionLists :
          \A r \in {update(dets)} :
             /\ r.m.matches = <<>>
             /\ r.m.unmatched_detections = [j \in 1..Len(dets) |-> j]
             /\ Len(r.tracks) = Len(dets)
             /\ r.next_id = next_id + Len(dets)
             /\ \A j \in 1..Len(dets) :
                   /\ r.tracks[j].track_id = next_id + j - 1
                   /\ is_tentative(r.tracks[j])
                   /\ r.tracks[j].mean = dets[j].pos
                   /\ r.tracks[j].features = <<dets[j].feature>>
                   /\ r.tracks[j].hits = 1
                   /\ r.tracks[j].time_since_update = 0

\* The tracker is empty again after its first track was purged.
C6_Witness ==
    /\ tracks = <<>>
    /\ next_id = 2
    /\ Len(update(<<[pos |-> 0, feature |-> <<1, 0>>]>>).tracks) = 1

\* The pair of track index i and detection index j is admissible: its gating
\* distance and its appearance distance are within their thresholds.
Admissible(dets, i, j) ==
    /\ kf_gating_distance(tracks[i].mean, tracks[i].var, dets[j].pos) <= gating_threshold
    /\ metric_distance(samples, dets[j].feature, tracks[i].track_id) <= matching_threshold

\* Detection j is the single detection of dets that track i admissibly matches.
SingleMatch(dets, i, j) ==
    \A d \in 1..Len(dets) : Admissible(dets, i, d) <=> d = j

\* Confirmed tracks i and k, with miss counters a < b, both admissibly match
\* the single detection j.
Contend(dets, i, k, j) ==
    /\ is_confirmed(tracks[i]) /\ is_confirmed(tracks[k])
    /\ tracks[i].time_since_update < tracks[k].time_since_update
    /\ SingleMatch(dets, i, j)
    /\ SingleMatch(dets, k, j)

\* No Confirmed track other than i with a miss counter up to that of i
\* admissibly matches detection j.
NoRival(dets, i, j) ==
    \A o \in 1..Len(tracks) :
       (o # i /\ is_confirmed(tracks[o])
        /\ tracks[o].time_since_update <= tracks[i].time_since_update)
       => ~Admissible(dets, o, j)

SmallerWins(r, i, k, j) ==
    /\ <<i, j>> \in Range(r.m.matches_a)
    /\ k \in Range(r.m.unmatched_tracks)

C8_GatingEnforced ==
    \A dets \in DetectionLists :
       \A r \in {update(dets)} :
          \A n \in 1..Len(r.m.matches_a) :
             kf_gating_distance(tracks[r.m.matches_a[n][1]].mean,
                                tracks[r.m.matches_a[n][1]].var,
                                dets[r.m.matches_a[n][2]].pos) <= gating_threshold

\* A Confirmed track in the cascade and a detection with appearance distance
\* 0 but a gating distance over the threshold: the track stays unmatched.
C8_Witness ==
    \E dets \in DetectionLists :
       \E i \in 1..Len(tracks) :
          /\ Len(dets) = 1
          /\ is_confirmed(tracks[i])
          /\ tracks[i].time_since_update >= 2
          /\ metric_distance(samples, dets[1].feature, tracks[i].track_id) = 0
          /\ kf_gating_distance(tracks[i].mean, tracks[i].var, dets[1].pos)
                > gating_threshold
          /\ i \in Range(update(dets).m.unmatched_tracks)

\* The gallery holds at most `budget` samples per identity, and only
\* identities of Confirmed tracks of the active set.
GalleryBounded(gallery, trks) ==
    \A id \in DOMAIN gallery :
       /\ Len(gallery[id]) <= budget
       /\ \E n \in 1..Len(trks) : trks[n].track_id = id /\ is_confirmed(trks[n])

\* C9: after every update the gallery holds at most `budget` samples per
\* identity and only identities of Confirmed active tracks: an identity is
\* gone after the first refresh from which it is absent.
C9_GalleryBounded ==
    /\ GalleryBounded(samples, tracks)
    /\ \A dets \in DetectionLists :
          \A r \in {update(dets)} :
             /\ GalleryBounded(r.samples, r.tracks)
             /\ DOMAIN r.samples = Range(active_targets(r.tracks))

\* An identity was handed more than `budget` samples and holds `budget`,
\* and an update that deletes its track drops it from the gallery.
C9_Witness ==
    \E id \in DOMAIN samples :
       /\ corrections[id] + 1 > budget
       /\ Len(samples[id]) = budget
       /\ \E dets \in DetectionLists :
             /\ id \notin DOMAIN update(dets).samples
             /\ DOMAIN update(dets).samples # {}

FeatureEvents(r, id) ==
    SelectSeq(r.events, LAMBDA e : e.hook = "on_track_feature_add" /\ e.track_id = id)

\* The detection a created track was created from.
CreatedFrom(r, dets, n) == dets[r.m.unmatched_detections[n - Len(tracks)]]

\* The feature hook fires once with the first embedding for every track the
\* update creates, and never for a track it leaves unmatched.
FiresOnCreation(r, dets) ==
    /\ \A n \in Len(tracks) + 1..Len(r.applied) :
          FeatureEvents(r, r.applied[n].track_id)
             = <<FeatureEvent(r.applied[n].track_id, CreatedFrom(r, dets, n).feature)>>
    /\ \A n \in Range(r.m.unmatched_tracks) :
          FeatureEvents(r, tracks[n].track_id) = <<>>

\* C10, as claimed: with the hook set, it fires at creation and afterwards
\* exactly on the corrections number n_init*3, 2*n_init*3, ... of the track,
\* counted from its creation.
C10_EveryThirdCorrection ==
    \A dets \in DetectionLists :
       \A r \in {update(dets)} :
          on_track_feature_add =>
             /\ FiresOnCreation(r, dets)
             /\ \A n \in 1..Len(r.m.matches) :
                   \A id \in {tracks[r.m.matches[n][1]].track_id} :
                      FeatureEvents(r, id) =
                         IF r.corr[id] % (n_init * 3) = 0
                         THEN <<FeatureEvent(id, dets[r.m.matches[n][2]].feature)>>
                         ELSE <<>>

\* C10, amended: with the hook set, it fires at creation and afterwards
\* exactly on the corrections that bring the hit counter, which is 1 at
\* creation and grows by 1 with every correction, to a multiple of n_init*3:
\* the corrections number n_init*3 - 1, 2*n_init*3 - 1, ...
C10_FeatureHookCadence ==
    /\ \A n \in 1..Len(tracks) :
          tracks[n].hits = corrections[tracks[n].track_id] + 1
    /\ \A dets \in DetectionLists :
          \A r \in {update(dets)} :
             on_track_feature_add =>
                /\ FiresOnCreation(r, dets)
                /\ \A n \in 1..Len(r.m.matches) :
                      \A id \in {tracks[r.m.matches[n][1]].track_id} :
                         FeatureEvents(r, id) =
                            IF (r.corr[id] + 1) % (n_init * 3) = 0
                            THEN <<FeatureEvent(id, dets[r.m.matches[n][2]].feature)>>
                            ELSE <<>>

\* A track whose correction number n_init*3 - 1 fired the hook is corrected
\* again, and its correction number n_init*3 does not fire it.
C10_Witness ==
    \E n \in 1..Len(tracks) :
       /\ corrections[tracks[n].track_id] = n_init * 3 - 1
       /\ \E dets \in DetectionLists :
             /\ n \in Matched(update(dets))
             /\ FeatureEvents(update(dets), tracks[n].track_id) = <<>>

\* The positions in the hook calls of r at which `hook` is called for id.
CallsOf(r, hook, id) ==
    {e \in 1..Len(r.events) : r.events[e].hook = hook /\ r.events[e].track_id = id}

\* C11: with the track-added hook set, an update calls it exactly once for
\* every track it creates, with that track's identity, the track being in
\* the track list, and before that identity's first feature call; it calls
\* it for no identity issued before, so once per identity over the run.
C11_AddHookOncePerIdentity ==
    \A dets \in DetectionLists :
       \A r \in {update(dets)} :
          on_track_add =>
             /\ \A n \in Len(tracks) + 1..Len(r.applied) :
                   \A id \in {r.applied[n].track_id} :
                      /\ Cardinality(CallsOf(r, "on_track_add", id)) = 1
                      /\ id \notin Range(issued)
                      /\ id \in track_ids(r.tracks)
                      /\ \A a \in CallsOf(r, "on_track_add", id) :
                            \A f \in CallsOf(r, "on_track_feature_add", id) : a < f
             /\ \A e \in 1..Len(r.events) :
                   r.events[e].hook = "on_track_add"
                   => r.events[e].track_id \in track_ids(Created(r))
             /\ \A id \in Range(issued) : CallsOf(r, "on_track_add", id) = {}

\* An update that corrects one track, for which the feature hook fires, and
\* creates another calls the track-added hook for the new identity only.
C11_Witness ==
    \E dets \in DetectionLists :
       \E n \in 1..Len(tracks) :
          /\ CallsOf(update(dets), "on_track_feature_add", tracks[n].track_id) # {}
          /\ CallsOf(update(dets), "on_track_add", tracks[n].track_id) = {}
          /\ CallsOf(update(dets), "on_track_add", next_id) # {}

\* C12: when a failure raised inside a hook leaves update, the Tracker state
\* is intact: no Deleted track is in the active set, the identities are
\* unique, the gallery holds exactly the identities of the Confirmed active
\* tracks, and no later update corrects a Deleted track.
C12_HookFailureKeepsState ==
    /\ \A n \in 1..Len(tracks) : ~is_deleted(tracks[n])
    /\ \A i \in 1..Len(tracks), j \in 1..Len(tracks) :
          tracks[i].track_id = tracks[j].track_id => i = j
    /\ DOMAIN samples = Range(active_targets(tracks))
    /\ \A dets \in FewDetections :
          \A r \in {update(dets)} :
             \A n \in Matched(r) : ~is_deleted(tracks[n])

\* What the caller can observe of the tracker after a call.
ProgramState(r) == <<r.tracks, r.samples, r.next_id>>

\* The state a returned update leaves, as a record.
After(r) ==
    [tracks |-> r.tracks, samples |-> r.samples, next_id |-> r.next_id,
     issued |-> r.issued, corr |-> r.corr, miss |-> r.miss]

\* update(dets) called again after it returned r.
Twice(r, dets) == update_call(After(r), dets, 0)

PredictOnce == [n \in 1..Len(tracks) |-> track_predict(tracks[n])]

PredictTwice == [n \in 1..Len(tracks) |-> track_predict(track_predict(tracks[n]))]

\* C13, as claimed: in every reachable state and for every detection list,
\* update called twice with the same detections leaves another state than
\* update called once, and predict called twice another than predict called
\* once.
C13_NeverIdempotent ==
    /\ \A dets \in DetectionLists :
          \A r \in {update(dets)} :
             ProgramState(Twice(r, dets)) # ProgramState(r)
    /\ PredictTwice # PredictOnce

\* C13, amended: update called twice with the same detections leaves another
\* state than update called once whenever the list is not empty or a track
\* is active after the first call, and the same state otherwise; predict
\* called twice differs from predict called once whenever a track is active
\* (in the model: one whose variance is still followed), and not when none is.
C13_IdempotentOnlyWhenIdle ==
    /\ \A dets \in DetectionLists :
          \A r \in {update(dets)} :
             (ProgramState(Twice(r, dets)) = ProgramState(r))
             <=> (dets = <<>> /\ r.tracks = <<>>)
    /\ (\E n \in 1..Len(tracks) : tracks[n].var + 1 < MaxVar)
       => PredictTwice # PredictOnce
    /\ tracks = <<>> => PredictTwice = PredictOnce

\* A Confirmed track is active that survives update([]): a second update([])
\* ages it once more, and a second predict moves its Kalman state once more.
C13_Witness ==
    /\ \E n \in 1..Len(tracks) :
          /\ is_confirmed(tracks[n])
          /\ tracks[n].var + 1 < MaxVar
    /\ \E r \in {update(<<>>)} :
          /\ r.tracks # <<>>
          /\ ProgramState(Twice(r, <<>>)) # ProgramState(r)
    /\ PredictTwice # PredictOnce

\* The track indices, and the detection indices, of a sequence of matches.
TracksOf(matches) == {matches[n][1] : n \in 1..Len(matches)}

DetectionsOf(matches) == {matches[n][2] : n \in 1..Len(matches)}

\* How often track index i occurs in the matches and in unmatched_tracks.
Occurrences(m, i) ==
    Cardinality({n \in 1..Len(m.matches) : m.matches[n][1] = i})
    + Cardinality({n \in 1..Len(m.unmatched_tracks) : m.unmatched_tracks[n] = i})

\* C14: the association of an update partitions the tracks present at its
\* start: every track index is in exactly one match or exactly once in
\* unmatched_tracks, no detection index is in two matches, and every such
\* track receives exactly one of correction and mark_missed.
C14_AssociationPartitionsTracks ==
    \A dets \in DetectionLists :
       \A r \in {update(dets)} :
          /\ TracksOf(r.m.matches) \cup Range(r.m.unmatched_tracks) = 1..Len(tracks)
          /\ \A i \in 1..Len(tracks) : Occurrences(r.m, i) = 1
          /\ \A a \in 1..Len(r.m.matches), b \in 1..Len(r.m.matches) :
                r.m.matches[a][2] = r.m.matches[b][2] => a = b
          /\ \A n \in 1..Len(r.m.matches) :
                r.applied[r.m.matches[n][1]]
                   = track_update(tracks[r.m.matches[n][1]], dets[r.m.matches[n][2]],
                                  n_init)
          /\ \A n \in 1..Len(r.m.unmatched_tracks) :
                r.applied[r.m.unmatched_tracks[n]]
                   = track_mark_missed(tracks[r.m.unmatched_tracks[n]], max_age)

\* Of two Confirmed tracks one is left unmatched by Stage 1 and matched by
\* IOU, and the other is reported unmatched.
C14_Witness ==
    \E dets \in DetectionLists :
       \E r \in {update(dets)} :
          /\ Len(tracks) = 2
          /\ r.m.unmatched_tracks # <<>>
          /\ \E n \in 1..Len(r.m.matches_b) : is_confirmed(tracks[r.m.matches_b[n][1]])

\* C15: a Confirmed track that Stage 1 leaves unmatched is an IOU candidate
\* iff its miss counter is exactly 1; with any other miss counter it is
\* reported unmatched and not matched by IOU; every track that is not
\* Confirmed is an IOU candidate; IOU matches only candidates.
C15_IouCandidatePolicy ==
    \A dets \in DetectionLists :
       \A r \in {update(dets)} :
          /\ \A i \in 1..Len(tracks) :
                IF is_confirmed(tracks[i])
                THEN /\ i \in Range(r.m.iou_track_candidates)
                        <=> (i \notin TracksOf(r.m.matches_a)
                             /\ tracks[i].time_since_update = 1)
                     /\ (i \notin TracksOf(r.m.matches_a)
                         /\ tracks[i].time_since_update # 1)
                        => (i \in Range(r.m.unmatched_tracks)
                            /\ i \notin TracksOf(r.m.matches_b))
                ELSE i \in Range(r.m.iou_track_candidates)
          /\ TracksOf(r.m.matches_b) \subseteq Range(r.m.iou_track_candidates)

\* A Confirmed track with miss counter 2 that Stage 1 leaves unmatched
\* overlaps the detection enough for an IOU match, and is reported unmatched
\* while the detection becomes a new track.
C15_Witness ==
    \E dets \in DetectionLists :
       \E r \in {update(dets)} :
          \E i \in 1..Len(tracks) :
             /\ Len(dets) = 1
             /\ is_confirmed(tracks[i])
             /\ tracks[i].time_since_update = 2
             /\ iou_cost(tracks[i], dets[1]) <= max_iou_distance
             /\ i \in Range(r.m.unmatched_tracks)
             /\ r.m.unmatched_detections = <<1>>

\* C16: Deleted is terminal and not observable between calls: no Deleted
\* track is in the active set when predict or update is called, so none is
\* predicted, matched or corrected, and a track that an update deletes is
\* not in the active set after it, nor is any other Deleted track.
C16_DeletedIsTerminal ==
    /\ \A n \in 1..Len(tracks) : ~is_deleted(tracks[n])
    /\ \A n \in 1..Len(PredictOnce) : ~is_deleted(PredictOnce[n])
    /\ \A dets \in DetectionLists :
          \A r \in {update(dets)} :
             /\ \A n \in TracksOf(r.m.matches) : ~is_deleted(tracks[n])
             /\ \A n \in 1..Len(r.tracks) : ~is_deleted(r.tracks[n])
             /\ \A n \in 1..Len(r.applied) :
                   is_deleted(r.applied[n])
                   => r.applied[n].track_id \notin track_ids(r.tracks)

\* C17: the association of an update is computed on the track list of the
\* start of the call: its indices are indices of that list, its Stage 1
\* matches are admissible and its Stage 2 matches overlap in that state; the
\* tracks keep their positions until the purge; and a track created in the
\* call is as its constructor made it, neither corrected nor marked missed.
C17_SnapshotThenApply ==
    \A dets \in DetectionLists :
       \A r \in {update(dets)} :
          /\ TracksOf(r.m.matches) \cup Range(r.m.unmatched_tracks) \subseteq 1..Len(tracks)
          /\ DetectionsOf(r.m.matches) \cup Range(r.m.unmatched_detections)
                \subseteq 1..Len(dets)
          /\ \A n \in 1..Len(r.m.matches_a) :
                Admissible(dets, r.m.matches_a[n][1], r.m.matches_a[n][2])
          /\ \A n \in 1..Len(r.m.matches_b) :
                iou_cost(tracks[r.m.matches_b[n][1]], dets[r.m.matches_b[n][2]])
                   <= max_iou_distance
          /\ Len(r.applied) = Len(tracks) + Len(r.m.unmatched_detections)
          /\ \A n \in 1..Len(tracks) : r.applied[n].track_id = tracks[n].track_id
          /\ \A n \in Len(tracks) + 1..Len(r.applied) :
                r.applied[n] = Track(kf_initiate(CreatedFrom(r, dets, n).pos).mean,
                                     kf_initiate(CreatedFrom(r, dets, n).pos).var,
                                     next_id + n - Len(tracks) - 1,
                                     CreatedFrom(r, dets, n).feature)

\* One update corrects a track, marks another missed and deletes it, and
\* creates a third.
C17_Witness ==
    \E dets \in DetectionLists :
       \E r \in {update(dets)} :
          /\ r.m.matches # <<>>
          /\ \E n \in Range(r.m.unmatched_tracks) : is_deleted(r.applied[n])
          /\ r.m.unmatched_detections # <<>>

\* C18: every detection of an update has exactly one outcome: its index is
\* in exactly one match, with a track present at the start of the call, or
\* exactly once in unmatched_detections, and then it creates exactly one
\* Tentative track; the tracks created and the advance of the identity
\* counter both number the unmatched detections.
C18_OneOutcomePerDetection ==
    \A dets \in DetectionLists :
       \A r \in {update(dets)} :
          /\ \A j \in 1..Len(dets) :
                Cardinality({n \in 1..Len(r.m.matches) : r.m.matches[n][2] = j})
                + Cardinality({n \in 1..Len(r.m.unmatched_detections) :
                                 r.m.unmatched_detections[n] = j}) = 1
          /\ TracksOf(r.m.matches) \subseteq 1..Len(tracks)
          /\ Len(Created(r)) = Len(r.m.unmatched_detections)
          /\ r.next_id - next_id = Len(r.m.unmatched_detections)
          /\ \A n \in 1..Len(Created(r)) :
                /\ is_tentative(Created(r)[n])
                /\ Created(r)[n].features
                      = <<dets[r.m.unmatched_detections[n]].feature>>
                /\ Created(r)[n].track_id \in track_ids(r.tracks)

\* Of the two detections of a frame one corrects a Confirmed track in
\* Stage 1 and the other creates a track.
C18_Witness ==
    \E dets \in DetectionLists :
       \E r \in {update(dets)} :
          /\ Len(dets) = 2
          /\ Len(r.m.matches_a) = 1
          /\ Len(r.m.unmatched_detections) = 1
          /\ r.next_id = next_id + 1

\* Every Confirmed track of trks has a sample in the gallery and an empty
\* feature buffer.
GalleryServes(gallery, trks) ==
    \A n \in 1..Len(trks) :
       is_confirmed(trks[n])
       => /\ trks[n].track_id \in DOMAIN gallery
          /\ Len(gallery[trks[n].track_id]) >= 1
          /\ trks[n].features = <<>>

\* C19: after every update every Confirmed active track has at least one
\* sample in the gallery under its identity and an empty feature buffer, so
\* its appearance distance is defined in the next frame; a Tentative track
\* holds all its embeddings, and the update that confirms it hands them all
\* to the gallery, which keeps the newest `budget` of them.
C19_GalleryServesConfirmed ==
    /\ GalleryServes(samples, tracks)
    /\ \A n \in 1..Len(tracks) :
          is_tentative(tracks[n]) => Len(tracks[n].features) = tracks[n].hits
    /\ \A dets \in DetectionLists :
          \A r \in {update(dets)} :
             /\ GalleryServes(r.samples, r.tracks)
             /\ \A i \in 1..Len(r.tracks) :
                   is_confirmed(r.tracks[i])
                   => \A j \in 1..Len(dets) :
                         metric_distance(r.samples, dets[j].feature,
                                         r.tracks[i].track_id) < INFTY_COST
             /\ \A n \in 1..Len(r.m.matches) :
                   \A i \in {r.m.matches[n][1]} :
                      (is_tentative(tracks[i]) /\ is_confirmed(r.applied[i]))
                      => r.samples[tracks[i].track_id]
                            = LastN(Append(tracks[i].features,
                                           dets[r.m.matches[n][2]].feature), budget)

\* A Tentative track is confirmed by a detection with another embedding than
\* the one it was created with, and the gallery then holds both.
C19_Witness ==
    \E dets \in DetectionLists :
       \E r \in {update(dets)} :
          \E n \in 1..Len(tracks) :
             /\ is_tentative(tracks[n])
             /\ is_confirmed(r.applied[n])
             /\ Len(r.samples[tracks[n].track_id]) = 2
             /\ r.samples[tracks[n].track_id][1] # r.samples[tracks[n].track_id][2]

\* C20: in every state that predict and update calls lead to, every active
\* track is Tentative or Confirmed, every Tentative track has miss counter
\* 0 and every Confirmed track a miss counter <= max_age; every update
\* leaves such a state.
C20_ActiveTracksWellFormed ==
    /\ \A n \in 1..Len(tracks) :
          /\ is_tentative(tracks[n]) \/ is_confirmed(tracks[n])
          /\ is_tentative(tracks[n]) => tracks[n].time_since_update = 0
          /\ is_confirmed(tracks[n]) => tracks[n].time_since_update <= max_age
    /\ \A dets \in DetectionLists :
          \A r \in {update(dets)} :
             \A n \in 1..Len(r.tracks) :
                /\ is_tentative(r.tracks[n]) \/ is_confirmed(r.tracks[n])
                /\ is_tentative(r.tracks[n]) => r.tracks[n].time_since_update = 0
                /\ is_confirmed(r.tracks[n]) => r.tracks[n].time_since_update <= max_age

\* A Tentative track and a Confirmed track on its last life are active, the
\* latter predicted since its last correction; update([]) deletes both.
C20_Witness ==
    /\ \E n \in 1..Len(tracks) : is_tentative(tracks[n])
    /\ \E n \in 1..Len(tracks) :
          /\ is_confirmed(tracks[n])
          /\ tracks[n].time_since_update = max_age
          /\ tracks[n].var > 1
    /\ update(<<>>).tracks = <<>>

====
